---- MODULE Spec2Model ----
(***************************************************************************)
(* coder-gerrit-ssh-sync: one pass of main over the Coder users, syncUser  *)
(* for each of them, and the Gerrit accounts' SSH-key store it writes to.  *)
(*                                                                         *)
(* Strings that the program takes apart (SSH keys, decimal account ids)    *)
(* are sequences of one-character strings; every other string is opaque.   *)
(***************************************************************************)
EXTENDS Integers, Sequences, FiniteSets, TLC

VARIABLES
    pc,         \* main's position
    cus,        \* main: cus.Users, the listed Coder users
    ui,         \* main: index of the range loop over cus.Users
    filterOnly, \* config.filterOnly
    synced,     \* the syncUser calls main has made so far: <<[user, ret]>>
    spc,        \* syncUser's position
    user,       \* syncUser: the user argument
    gus,        \* syncUser: the accounts returned by the query
    key,        \* syncUser: key.PublicKey
    ai,         \* syncUser: index of the range loop over *gus
    errs,       \* syncUser: the errs slice
    ret,        \* syncUser: the returned error
    calls,      \* the external calls of the current syncUser call, in order
    store,      \* Gerrit: the keys registered on each account
    run,        \* how many syncUser calls have been started
    dir,        \* Gerrit: the accounts that match each email
    coderKey,   \* Coder: each user's Git SSH public key
    coderUsers, \* Coder: the users GET /api/v2/users lists
    boot,       \* main: the start-up steps taken so far, with their outcome
    http        \* CoderClient.Get: its last exchange and the error it returned

vars == <<pc, cus, ui, filterOnly, synced, spc, user, gus, key, ai, errs, ret,
          calls, store, run, dir, coderKey, coderUsers, boot, http>>

----------------------------------------------------------------------------
(* Bounds *)

\* the longest account list a query returns
MaxAccounts == 2

\* how many times in succession the driver calls syncUser for its user
MaxRuns == 2

\* the longest public key string handed to AddSSHKey
MaxKeyLen == 6

----------------------------------------------------------------------------
(* Strings *)

SP == " "

\* unicode.IsSpace, restricted to the characters the model draws from
IsSpace(c) == c \in {" ", "\t", "\n", "\r"}

RECURSIVE TrimLeft(_)
TrimLeft(s) ==
    IF s # <<>> /\ IsSpace(Head(s)) THEN TrimLeft(Tail(s)) ELSE s

RECURSIVE TrimRight(_)
TrimRight(s) ==
    IF s # <<>> /\ IsSpace(s[Len(s)]) THEN TrimRight(SubSeq(s, 1, Len(s) - 1)) ELSE s

\* strings.TrimSpace
TrimSpace(s) == TrimRight(TrimLeft(s))

\* strings.Index(s, " "), 1-based; 0 when there is none
IndexSP(s) ==
    IF \E i \in 1..Len(s) : s[i] = SP
    THEN CHOOSE i \in 1..Len(s) : s[i] = SP /\ \A j \in 1..(i - 1) : s[j] # SP
    ELSE 0

\* strings.SplitN(s, " ", n) for n > 0: at most n pieces, the last one unsplit
RECURSIVE SplitN(_, _)
SplitN(s, n) ==
    IF n <= 1 \/ IndexSP(s) = 0
    THEN <<s>>
    ELSE <<SubSeq(s, 1, IndexSP(s) - 1)>>
         \o SplitN(SubSeq(s, IndexSP(s) + 1, Len(s)), n - 1)

\* strings.Join(pieces, " ")
RECURSIVE Join(_)
Join(pieces) ==
    IF pieces = <<>> THEN <<>>
    ELSE IF Len(pieces) = 1 THEN pieces[1]
    ELSE pieces[1] \o <<SP>> \o Join(Tail(pieces))

\* the comment addSSHKey appends; it holds no space, so it is one atom here
CoderSync == <<"coder-sync">>

\* a key string that gets the comment whenever it has fewer than three pieces
KeyStrCommentAdded(publicKey) ==
    LET pieces == SplitN(TrimSpace(publicKey), 3)
    IN  Join(IF Len(pieces) <= 2 THEN Append(pieces, CoderSync) ELSE pieces)

\* a key string built without trimming the key first
KeyStrUntrimmed(publicKey) ==
    LET pieces == SplitN(publicKey, 3)
    IN  Join(IF Len(pieces) = 2 THEN Append(pieces, CoderSync) ELSE pieces)

\* the key string addSSHKey builds from key.PublicKey
KeyStr(publicKey) ==
    LET pieces == SplitN(TrimSpace(publicKey), 3)
    IN  Join(IF Len(pieces) = 2 THEN Append(pieces, CoderSync) ELSE pieces)

Digit(d) == <<"0", "1", "2", "3", "4", "5", "6", "7", "8", "9">>[d + 1]

RECURSIVE Digits(_)
Digits(n) == IF n < 10 THEN <<Digit(n)>> ELSE Append(Digits(n \div 10), Digit(n % 10))

\* a rendering that keeps the sign and the last digit only
ItoaUnits(n) == IF n < 0 THEN <<"-", Digit((-n) % 10)>> ELSE <<Digit(n % 10)>>

\* strconv.Itoa
Itoa(n) == IF n < 0 THEN <<"-">> \o Digits(-n) ELSE Digits(n)

----------------------------------------------------------------------------
(* The data the program reads *)

\* coderclient.CoderUser
U1 == [Email |-> "a@x", ID |-> "u1", Username |-> "alice", Status |-> "active"]

U2 == [Email |-> "b@x", ID |-> "u2", Username |-> "bob", Status |-> "dormant"]

AllUsers == {U1, U2}

Emails == {u.Email : u \in AllUsers}

UserIDs == {u.ID : u \in AllUsers}

\* the user lists GET /api/v2/users can return
UserLists == {<<>>, <<U1>>, <<U2>>, <<U1, U2>>, <<U2, U1>>}

\* gerrit.AccountInfo
Account(id, inactive) == [AccountID |-> id, Inactive |-> inactive]

AccountIDs == {-1, 0, 7, 12}

AllAccounts == {Account(id, FALSE) : id \in AccountIDs} \cup {Account(12, TRUE)}

\* sequences of at most n accounts with pairwise different identifiers
RECURSIVE AccountListsUpTo(_)
AccountListsUpTo(n) ==
    IF n = 0 THEN {<<>>}
    ELSE LET shorter == AccountListsUpTo(n - 1)
         IN  shorter \cup
             {Append(l, a) : <<l, a>> \in
                 {p \in shorter \X AllAccounts :
                     /\ Len(p[1]) = n - 1
                     /\ \A i \in 1..Len(p[1]) : p[1][i].AccountID # p[2].AccountID}}

\* the account directory of Gerrit: for each email the accounts a query returns,
\* MaxAccounts accounts at most over all emails
Directories ==
    {d \in [Emails -> AccountListsUpTo(MaxAccounts)] :
        /\ Len(d["a@x"]) + Len(d["b@x"]) <= MaxAccounts
        /\ \A i \in 1..Len(d["a@x"]) : \A j \in 1..Len(d["b@x"]) :
               d["a@x"][i].AccountID # d["b@x"][j].AccountID}

\* the public keys Coder can hold for a user: none, algorithm and material,
\* those with a comment, and a single token
RawKeys(uid) ==
    IF uid = "u1"
    THEN {<<>>, <<"r", " ", "m">>, <<"r", " ", "m", " ", "c">>, <<"r">>}
    ELSE {<<>>, <<"r", " ", "n">>}

CoderKeys == {k \in [UserIDs -> UNION {RawKeys(u) : u \in UserIDs}] :
                 \A u \in UserIDs : k[u] \in RawKeys(u)}

----------------------------------------------------------------------------
(* Errors *)

\* an error value: what it says, the error it wraps, the errors it joins
Err(kind, cause, list) == [kind |-> kind, cause |-> cause, errs |-> list]

Nil == Err("nil", "", <<>>)

\* a syncUser that ends in return nil whatever it recorded
ErrorsJoinNil(list) == Nil

\* a join that keeps the first error only
ErrorsJoinFirst(list) == IF list = <<>> THEN Nil ELSE Err("join", "", <<list[1]>>)

\* errors.Join: nil when there is no non-nil error to join
ErrorsJoin(list) == IF list = <<>> THEN Nil ELSE Err("join", "", list)

\* the errors a Gerrit call can return
GerritErrs == {"EOF", "403"}

\* an HTTP exchange with Coder as CoderClient.Get sees it
Response(valid, sent, status, json) ==
    [valid |-> valid, sent |-> sent, status |-> status, json |-> json]

StatusOK == 200

Responses ==
    {Response(TRUE, TRUE, StatusOK, TRUE), Response(FALSE, TRUE, StatusOK, TRUE),
     Response(TRUE, FALSE, StatusOK, TRUE), Response(TRUE, TRUE, 404, TRUE),
     Response(TRUE, TRUE, 201, TRUE),
     Response(TRUE, TRUE, StatusOK, FALSE)}

\* fmt.Errorf("Coder HTTP status: %s", resp.Status), where resp.Status is the
\* status code followed by its text
StatusError(code) ==
    CASE code = 200 -> "Coder HTTP status: 200 OK"
      [] code = 201 -> "Coder HTTP status: 201 Created"
      [] code = 404 -> "Coder HTTP status: 404 Not Found"

\* a Get whose error does not say which status it met
GetStatusUnnamed(resp) ==
    IF ~resp.valid THEN "failed to join URL path"
    ELSE IF ~resp.sent THEN "transport"
    ELSE IF resp.status # StatusOK THEN "Coder HTTP status"
    ELSE IF ~resp.json THEN "invalid character"
    ELSE ""

\* CoderClient.Get: the error it returns for an exchange ("" for nil)
Get(resp) ==
    IF ~resp.valid THEN "failed to join URL path"
    ELSE IF ~resp.sent THEN "transport"
    ELSE IF resp.status # StatusOK THEN StatusError(resp.status)
    ELSE IF ~resp.json THEN "invalid character"
    ELSE ""

\* what is known of the last exchange of CoderClient.Get
Exchange(resp) == [made |-> TRUE, resp |-> resp, err |-> Get(resp)]

NoExchange == [made |-> FALSE, resp |-> Response(TRUE, TRUE, StatusOK, TRUE), err |-> ""]

----------------------------------------------------------------------------
(* External calls *)

Call(op, arg, k, err) == [op |-> op, arg |-> arg, key |-> k, err |-> err]

\* a Gerrit that acknowledges a key and stores nothing
RegisteredNowhere(st, accountID, k) == st

\* Gerrit stores a key it acknowledges on the account the request names
Registered(st, accountID, k) ==
    LET id == CHOOSE i \in AccountIDs : Itoa(i) = accountID
    IN  [st EXCEPT ![id] = @ \cup {k}]

----------------------------------------------------------------------------
(* main *)

InitWorld ==
    /\ dir \in Directories
    /\ coderKey \in CoderKeys
    /\ coderUsers \in UserLists

InitSync ==
    /\ spc = "idle"
    /\ user = U1
    /\ gus = <<>>
    /\ key = <<>>
    /\ ai = 0
    /\ errs = <<>>
    /\ ret = Nil
    /\ calls = <<>>

Init ==
    /\ pc = "newGerritClient"
    /\ cus = <<>>
    /\ ui = 0
    /\ filterOnly \in {"", "a@x"}
    /\ synced = <<>>
    /\ InitSync
    /\ InitWorld
    /\ store = [id \in AccountIDs |-> {}]
    /\ run = 0
    /\ boot = <<>>
    /\ http = NoExchange

syncVars == <<spc, user, gus, key, ai, errs, ret, calls, store, run>>

worldVars == <<dir, coderKey, coderUsers>>

\* the steps main takes before the user loop, in the order of its text
BootOrder == <<"newGerritClient", "GetVersion", "buildinfo", "users">>

\* a main that logs a failed start-up step and goes on
AfterBootstrapLogOnly(ok, next) == next

\* if err != nil { log.Fatalf(...) }
AfterBootstrap(ok, next) == IF ok THEN next ELSE "fatal"

Booted(at, ok) == Append(boot, [step |-> at, ok |-> ok])

\* main, up to the user loop: each step either succeeds or ends in log.Fatalf
Bootstrap(at, next) ==
    /\ pc = at
    /\ \E ok \in BOOLEAN :
          /\ pc' = AfterBootstrap(ok, next)
          /\ boot' = Booted(at, ok)
    /\ UNCHANGED <<cus, ui, filterOnly, synced, syncVars, worldVars, http>>

NewGerritClient == Bootstrap("newGerritClient", "GetVersion")

GetVersion == Bootstrap("GetVersion", "buildinfo")

GetBuildInfo ==
    /\ pc = "buildinfo"
    /\ \E resp \in Responses :
          /\ pc' = AfterBootstrap(Get(resp) = "", "users")
          /\ boot' = Booted("buildinfo", Get(resp) = "")
          /\ http' = Exchange(resp)
    /\ UNCHANGED <<cus, ui, filterOnly, synced, syncVars, worldVars>>

GetUsers ==
    /\ pc = "users"
    /\ \E resp \in Responses :
          /\ pc' = AfterBootstrap(Get(resp) = "", "range")
          /\ boot' = Booted("users", Get(resp) = "")
          /\ http' = Exchange(resp)
          /\ IF Get(resp) # ""
             THEN UNCHANGED <<cus, ui>>
             ELSE cus' = coderUsers /\ ui' = 1
    /\ UNCHANGED <<filterOnly, synced, syncVars, worldVars>>

\* a loop that ignores the filter
SkippedNever(cu) == FALSE

\* if config.filterOnly != "" && cu.Email != config.filterOnly { continue }
Skipped(cu) == filterOnly # "" /\ cu.Email # filterOnly

\* for _, cu := range cus.Users: the end of the list
RangeEnd ==
    /\ pc = "range" /\ spc = "idle"
    /\ ui > Len(cus)
    /\ pc' = "exit"
    /\ UNCHANGED <<cus, ui, filterOnly, synced, syncVars, worldVars, boot, http>>

\* the filter: continue
RangeSkip ==
    /\ pc = "range" /\ spc = "idle"
    /\ ui <= Len(cus)
    /\ Skipped(cus[ui])
    /\ ui' = ui + 1
    /\ UNCHANGED <<pc, cus, filterOnly, synced, syncVars, worldVars, boot, http>>

\* syncUser is entered
Enter(u, at) ==
    /\ spc' = at
    /\ user' = u
    /\ gus' = <<>>
    /\ key' = <<>>
    /\ ai' = 0
    /\ errs' = <<>>
    /\ ret' = Nil
    /\ calls' = <<>>
    /\ run' = run + 1
    /\ http' = NoExchange

RangeCall ==
    /\ pc = "range" /\ spc = "idle"
    /\ ui <= Len(cus)
    /\ ~Skipped(cus[ui])
    /\ Enter(cus[ui], "query")
    /\ UNCHANGED <<pc, cus, ui, filterOnly, synced, store, worldVars, boot>>

\* the accounts for which the current syncUser call got a key acknowledged
Added ==
    {id \in AccountIDs :
        \E j \in 1..Len(calls) :
            calls[j].op = "AddSSHKey" /\ calls[j].arg = Itoa(id) /\ calls[j].err = ""}

\* what is kept of a syncUser call that has returned
Summary == [user |-> user, ret |-> ret, added |-> Added]

\* a loop that gives up at the first user whose sync failed
NextUserStopOnError(e, i) == IF e = Nil THEN i + 1 ELSE Len(cus) + 1

\* if err != nil { log.Printf(...) }: the range goes on to the next user
NextUser(e, i) == i + 1

\* syncUser has returned: main logs the error, if any, and goes on; the locals
\* of the call are gone
RangeNext ==
    /\ pc = "range" /\ spc = "returned"
    /\ synced' = Append(synced, Summary)
    /\ spc' = "idle"
    /\ gus' = <<>> /\ key' = <<>> /\ ai' = 0 /\ errs' = <<>> /\ ret' = Nil
    /\ calls' = <<>>
    /\ ui' = NextUser(ret, ui)
    /\ http' = NoExchange
    /\ UNCHANGED <<pc, cus, filterOnly, user, store, run, worldVars, boot>>

----------------------------------------------------------------------------
(* syncUser *)

\* a syncUser that blocks where it should return
ReturnBlocked(e) == spc' = "blocked" /\ ret' = e

Return(e) == spc' = "returned" /\ ret' = e

\* a query error that is swallowed
QueryErrorNil(err) == Nil

\* the error syncUser returns when the account query failed
QueryError(err) == Err("query Gerrit user", err, <<>>)

\* no early return for an empty result
NoMatchNever(list) == FALSE

\* whether the query matched no account
NoMatch(list) == Len(list) = 0

\* a fetch error that is swallowed
KeyFetchErrorNil(err) == Nil

\* the error syncUser returns when the key fetch failed
KeyFetchError(err) == Err("get Coder Git SSH key", err, <<>>)

\* a query that is not restricted to the email and returns every account
QueryResultAll(email) == dir["a@x"] \o dir["b@x"]

\* Query: email:%q: Gerrit answers with the accounts that match the email
QueryResult(email) == dir[email]

\* the account query, and the return when it fails or matches nothing
QueryAccounts ==
    /\ spc = "query"
    /\ \E err \in GerritErrs \cup {""} :
          /\ calls' = Append(calls, Call("QueryAccounts", <<user.Email>>, <<>>, err))
          /\ IF err # ""
             THEN Return(QueryError(err)) /\ UNCHANGED gus
             ELSE /\ gus' = QueryResult(user.Email)
                  /\ IF NoMatch(QueryResult(user.Email))
                     THEN Return(Nil)
                     ELSE spc' = "key" /\ UNCHANGED ret
    /\ UNCHANGED <<pc, cus, ui, filterOnly, synced, user, key, ai, errs, store,
                   run, worldVars, boot, http>>

\* no check of the fetched key
KeyMissingNever(publicKey) == FALSE

\* whether syncUser accepts the fetched key
KeyMissing(publicKey) == publicKey = <<>>

\* the fetch of the user's key, and the return when it fails or the key is empty
GetGitSSHKey ==
    /\ spc = "key"
    /\ \E resp \in Responses :
          /\ calls' = Append(calls,
                Call("Get", <<"/api/v2/users/", user.ID, "/gitsshkey">>, <<>>, Get(resp)))
          /\ IF Get(resp) # ""
             THEN Return(KeyFetchError(Get(resp))) /\ UNCHANGED <<key, ai>>
             ELSE /\ key' = coderKey[user.ID]
                  /\ IF KeyMissing(coderKey[user.ID])
                     THEN Return(Err("no SSH key found for user", "", <<>>)) /\ UNCHANGED ai
                     ELSE spc' = "range" /\ ai' = 1 /\ UNCHANGED ret
          /\ http' = Exchange(resp)
    /\ UNCHANGED <<pc, cus, ui, filterOnly, synced, user, gus, errs, store, run,
                   worldVars, boot>>

\* a check that lets the identifier 0 through
InvalidAccountNegative(gu) == gu.AccountID < 0

\* whether the loop skips the account
InvalidAccount(gu) == gu.AccountID <= 0

\* the error the loop records for an account
AccountError(gu, err) == [id |-> gu.AccountID, cause |-> err]

\* a loop that registers the key string addSSHKey would build
KeySentNormalized(publicKey) == KeyStr(publicKey)

\* the key string the loop registers
KeySent(publicKey) == publicKey

\* a loop that tries the same account again after a failure
AfterFailureRetry(i) == i

\* a loop that stops at the first failure
AfterFailureBreak(i) == Len(gus) + 1

\* where the loop goes after a registration failed
AfterFailure(i) == i + 1

\* a loop that takes the accounts from the last one to the first
RangedReverse(list, i) == list[Len(list) + 1 - i]

\* for _, gu := range *gus: the element of the i-th iteration
Ranged(list, i) == list[i]

\* one iteration of the loop over the matched accounts
AddSSHKey ==
    /\ spc = "range" /\ ai <= Len(gus)
    /\ IF InvalidAccount(Ranged(gus, ai))
       THEN ai' = ai + 1 /\ UNCHANGED <<calls, errs, store>>
       ELSE \E err \in GerritErrs \cup {""} :
               /\ calls' = Append(calls,
                     Call("AddSSHKey", Itoa(Ranged(gus, ai).AccountID), KeySent(key), err))
               /\ IF err # ""
                  THEN /\ errs' = Append(errs, AccountError(Ranged(gus, ai), err))
                       /\ ai' = AfterFailure(ai)
                       /\ UNCHANGED store
                  ELSE /\ store' = Registered(store, Itoa(Ranged(gus, ai).AccountID), KeySent(key))
                       /\ ai' = ai + 1
                       /\ UNCHANGED errs
    /\ UNCHANGED <<pc, cus, ui, filterOnly, synced, spc, user, gus, key, ret, run,
                   worldVars, boot, http>>

\* the loop is over: return errors.Join(errs...)
ReturnJoin ==
    /\ spc = "range" /\ ai > Len(gus)
    /\ Return(ErrorsJoin(errs))
    /\ UNCHANGED <<pc, cus, ui, filterOnly, synced, user, gus, key, ai, errs,
                   calls, store, run, worldVars, boot, http>>

Next ==
    \/ NewGerritClient
    \/ GetVersion
    \/ GetBuildInfo
    \/ GetUsers
    \/ RangeEnd
    \/ RangeSkip
    \/ RangeCall
    \/ RangeNext
    \/ QueryAccounts
    \/ GetGitSSHKey
    \/ AddSSHKey
    \/ ReturnJoin

Spec == Init /\ [][Next]_vars

----------------------------------------------------------------------------
(* syncUser with the user-status filter, the inactive-account filter and the *)
(* existing-key check, called twice in succession as TestSyncUser calls it   *)

\* a filter that lets every user through
NonActiveUserNever(u) == FALSE

\* whether syncUser skips the user before any call
NonActiveUser(u) == u.Status \in {"dormant", "suspended"}

\* a loop that treats every account as active
InactiveAccountNever(gu) == FALSE

\* whether the loop skips the account as inactive
InactiveAccount(gu) == gu.Inactive

\* algorithm and key material of a key string: its first two fields
KeyFields(k) ==
    LET pieces == SplitN(TrimSpace(k), 3)
    IN  SubSeq(pieces, 1, IF Len(pieces) < 2 THEN Len(pieces) ELSE 2)

\* an existing-key check that compares the whole key strings
KeyPresentExact(listed, k) == k \in listed

\* an existing-key check that never finds the key
KeyPresentNever(listed, k) == FALSE

\* the existing-key check: some listed key has the algorithm and material of k
KeyPresent(listed, k) == \E l \in listed : KeyFields(l) = KeyFields(k)

Suspended == [U1 EXCEPT !.Status = "suspended"]

TestUsers == {U1, U2, Suspended}

\* keys an account can hold before the first call: the key of u1 under another
\* comment, and a key of another material
StoredKeys == {<<"r", " ", "m", " ", "o">>, <<"r", " ", "x">>}

InitStores ==
    {[id \in AccountIDs |-> IF id = 7 THEN held ELSE {}] :
        held \in {{}} \cup {{k} : k \in StoredKeys}}

InitList ==
    /\ pc = "test"
    /\ cus = <<>>
    /\ ui = 0
    /\ filterOnly = ""
    /\ synced = <<>>
    /\ spc = "idle"
    /\ user \in TestUsers
    /\ gus = <<>> /\ key = <<>> /\ ai = 0 /\ errs = <<>> /\ ret = Nil
    /\ calls = <<>>
    /\ InitWorld
    /\ \A e \in Emails \ {user.Email} : dir[e] = <<>>
    /\ \A u \in UserIDs \ {user.ID} : coderKey[u] = <<>>
    /\ coderUsers = <<>>
    /\ store \in InitStores
    /\ run = 0
    /\ boot = <<>>
    /\ http = NoExchange

\* the test calls syncUser, and calls it again once it has returned
TestCall ==
    /\ pc = "test" /\ spc \in {"idle", "returned"}
    /\ run < MaxRuns
    /\ synced' = IF spc = "returned" THEN Append(synced, Summary) ELSE synced
    /\ Enter(user, "status")
    /\ UNCHANGED <<pc, cus, ui, filterOnly, store, worldVars, boot>>

\* the user-status filter
CheckStatus ==
    /\ spc = "status"
    /\ IF NonActiveUser(user) THEN Return(Nil) ELSE spc' = "query" /\ UNCHANGED ret
    /\ UNCHANGED <<pc, cus, ui, filterOnly, synced, user, gus, key, ai, errs,
                   calls, store, run, worldVars, boot, http>>

\* a loop that registers the key first and lists the account's keys afterwards
AddThenCheck(listing, adding) == <<adding, listing>>

\* the existence check is made first, the registration follows it
CheckThenAdd(listing, adding) == <<listing, adding>>

\* a loop that gives up on the remaining accounts when a key listing fails
AfterListFailureBreak(i) == Len(gus) + 1

\* a failed key listing is recorded for its account and the loop goes on
AfterListFailure(i) == i + 1

\* one iteration of the loop over the matched accounts: the existing-key check
\* and, when the key is absent, the registration
ListAndAddSSHKey ==
    /\ spc = "range" /\ ai <= Len(gus)
    /\ IF InvalidAccount(gus[ai]) \/ InactiveAccount(gus[ai])
       THEN ai' = ai + 1 /\ UNCHANGED <<calls, errs, store>>
       ELSE LET id == gus[ai].AccountID
                list(err) == Call("ListSSHKeys", Itoa(id), <<>>, err)
                add(err) == Call("AddSSHKey", Itoa(id), KeySent(key), err)
            IN  \/ \E err \in GerritErrs :
                      /\ calls' = Append(calls, list(err))
                      /\ errs' = Append(errs, AccountError(gus[ai], err))
                      /\ ai' = AfterListFailure(ai)
                      /\ UNCHANGED store
                \/ /\ KeyPresent(store[id], key)
                   /\ calls' = Append(calls, list(""))
                   /\ ai' = ai + 1
                   /\ UNCHANGED <<errs, store>>
                \/ /\ ~KeyPresent(store[id], key)
                   /\ ai' = ai + 1
                   /\ \E err \in GerritErrs \cup {""} :
                         /\ calls' = calls \o CheckThenAdd(list(""), add(err))
                         /\ IF err # ""
                            THEN /\ errs' = Append(errs, AccountError(gus[ai], err))
                                 /\ UNCHANGED store
                            ELSE /\ store' = Registered(store, Itoa(id), KeySent(key))
                                 /\ UNCHANGED errs
    /\ UNCHANGED <<pc, cus, ui, filterOnly, synced, spc, user, gus, key, ret, run,
                   worldVars, boot, http>>

NextList ==
    \/ TestCall
    \/ CheckStatus
    \/ QueryAccounts
    \/ GetGitSSHKey
    \/ ListAndAddSSHKey
    \/ ReturnJoin

SpecList == InitList /\ [][NextList]_vars

----------------------------------------------------------------------------
(* Properties of syncUser *)

\* the positions in calls of the calls of one kind
CallsOf(op) == {j \in 1..Len(calls) : calls[j].op = op}

\* the positions of the list and registration calls on the account id
CallsOn(id) ==
    {j \in CallsOf("AddSSHKey") \cup CallsOf("ListSSHKeys") : calls[j].arg = Itoa(id)}

\* syncUser has returned from the end of its loop over the matched accounts
LoopDone == spc = "returned" /\ ai > 0

\* the matched accounts with an identifier > 0
ValidMatched == {i \in 1..Len(gus) : gus[i].AccountID > 0}

\* C2: a failure on one account does not abort the loop: when syncUser returns
\* the aggregated error, every matched account with identifier > 0 has received
\* its registration call, and every acknowledged registration is in the store.
C2_FailureDoesNotAbortLoop ==
    (spc = "returned" /\ ret.kind = "join") =>
        \A i \in ValidMatched :
            \E j \in CallsOf("AddSSHKey") :
                /\ calls[j].arg = Itoa(gus[i].AccountID)
                /\ calls[j].err = "" => calls[j].key \in store[gus[i].AccountID]

\* two accounts matched, the registration failed on the first and the second
\* was registered all the same; syncUser returned an error
C2_Witness ==
    /\ spc = "returned" /\ ret.kind = "join"
    /\ Len(gus) = 2 /\ Len(calls) = 4
    /\ calls[3].op = "AddSSHKey" /\ calls[3].err # ""
    /\ calls[4].op = "AddSSHKey" /\ calls[4].err = ""
    /\ calls[4].arg = Itoa(gus[2].AccountID)
    /\ key \in store[gus[2].AccountID]

\* the entries of the aggregated error that name the account id
EntriesFor(id) == {k \in 1..Len(ret.errs) : ret.errs[k].id = id}

\* C3: the aggregated error has exactly one entry for every account whose
\* registration failed, carrying the account's identifier and the error the
\* call returned, and no entry for any other account; with no failure the
\* result is nil.
C3_AggregatedErrorPerAccount ==
    LoopDone =>
        /\ \A i \in 1..Len(gus) :
              LET id == gus[i].AccountID
                  failed == {j \in CallsOn(id) : calls[j].err # ""}
              IN  IF failed = {}
                  THEN EntriesFor(id) = {}
                  ELSE /\ Cardinality(EntriesFor(id)) = 1
                       /\ \A k \in EntriesFor(id) : \A j \in failed :
                              ret.errs[k].cause = calls[j].err
        /\ \A k \in 1..Len(ret.errs) : \E i \in 1..Len(gus) : ret.errs[k].id = gus[i].AccountID
        /\ (ret = Nil) <=> (\A j \in 1..Len(calls) : calls[j].err = "")

\* two accounts failed with different causes and both are in the result
C3_Witness ==
    /\ LoopDone
    /\ Len(ret.errs) = 2
    /\ ret.errs[1].id = 7 /\ ret.errs[1].cause = "EOF"
    /\ ret.errs[2].id = 12 /\ ret.errs[2].cause = "403"

KeyFetched == \E j \in CallsOf("Get") : calls[j].err = ""

\* C5: when the key fetch succeeds with an empty public key, syncUser returns
\* a non-nil error and makes no registration call.
C5_MissingKeyIsFatal ==
    (KeyFetched /\ coderKey[user.ID] = <<>>) =>
        /\ spc = "returned" /\ ret # Nil
        /\ CallsOf("AddSSHKey") = {}

\* the key was empty although a valid account matched
C5_Witness ==
    /\ spc = "returned" /\ KeyFetched /\ key = <<>>
    /\ ValidMatched # {}
    /\ ret.kind = "no SSH key found for user"

\* C6: when the account query succeeds with an empty list, syncUser returns
\* nil and makes no further call.
C6_NoMatchIsSuccess ==
    (Len(calls) >= 1 /\ calls[1].err = "" /\ dir[user.Email] = <<>>) =>
        /\ spc = "returned" /\ ret = Nil
        /\ Len(calls) = 1

\* the query of a user with a key on Coder matched nothing
C6_Witness ==
    /\ spc = "returned" /\ Len(calls) = 1 /\ calls[1].err = ""
    /\ gus = <<>> /\ coderKey[user.ID] # <<>>

\* C7: when the account query fails, syncUser returns a non-nil error at once:
\* no key fetch, no list or registration call.
C7_QueryFailureIsFatal ==
    (Len(calls) >= 1 /\ calls[1].err # "") =>
        /\ spc = "returned" /\ ret # Nil /\ ret.cause = calls[1].err
        /\ Len(calls) = 1
        /\ gus = <<>>

\* the query failed for a user with a matching valid account and a key
C7_Witness ==
    /\ spc = "returned" /\ Len(calls) = 1 /\ calls[1].err = "EOF"
    /\ \E i \in 1..Len(dir[user.Email]) : dir[user.Email][i].AccountID > 0
    /\ coderKey[user.ID] # <<>>

\* C8: when the key fetch fails (transport error, non-success status or
\* undecodable body), syncUser returns a non-nil error and no account receives
\* a list or registration call.
C8_KeyFetchFailureIsFatal ==
    (\E j \in CallsOf("Get") : calls[j].err # "") =>
        /\ spc = "returned" /\ ret # Nil
        /\ \A j \in CallsOf("Get") : ret.cause = calls[j].err
        /\ CallsOf("AddSSHKey") = {} /\ CallsOf("ListSSHKeys") = {}

\* the fetch was answered 404 for a user with a matching valid account
C8_Witness ==
    /\ spc = "returned" /\ Len(calls) = 2
    /\ calls[2].op = "Get" /\ calls[2].err = StatusError(404)
    /\ ValidMatched # {}
    /\ coderKey[user.ID] # <<>>

FirstRunRegisteredAll ==
    /\ run = 2 /\ Len(synced) = 1
    /\ \A i \in 1..Len(dir[user.Email]) :
          dir[user.Email][i].AccountID > 0 =>
              dir[user.Email][i].AccountID \in synced[1].added

Fields(k) == SplitN(TrimSpace(k), 3)

\* the two keys have the same algorithm and the same key material
SameAlgorithmAndMaterial(k, l) ==
    /\ Len(Fields(k)) >= 2 /\ Len(Fields(l)) >= 2
    /\ Fields(k)[1] = Fields(l)[1]
    /\ Fields(k)[2] = Fields(l)[2]

\* the step appends a registration call on the account id
RegistersOn(id) ==
    /\ Len(calls') > Len(calls)
    /\ calls'[Len(calls')].op = "AddSSHKey"
    /\ calls'[Len(calls')].arg = Itoa(id)

----------------------------------------------------------------------------
(* The registration calls of one syncUser call *)

\* the registration calls of the current syncUser call, in the order made
AddCalls == SelectSeq(calls, LAMBDA c : c.op = "AddSSHKey")

RECURSIVE DecimalValue(_)
\* the number a string of decimal digits, with an optional sign, denotes
DecimalValue(s) ==
    IF s = <<>> THEN 0
    ELSE IF Head(s) = "-" THEN 0 - DecimalValue(Tail(s))
    ELSE LET last == s[Len(s)]
             d    == CHOOSE n \in 0..9 : Digit(n) = last
         IN  10 * DecimalValue(SubSeq(s, 1, Len(s) - 1)) + d

\* every matched account is active and has an identifier > 0
OnlyActiveValid ==
    \A i \in 1..Len(gus) : gus[i].AccountID > 0 /\ ~gus[i].Inactive

C12_NilIffNoFailureRecorded ==
    LoopDone =>
        /\ (ret = Nil) <=> (errs = <<>>)
        /\ (errs = <<>>) <=> (\A i \in 1..Len(AddCalls) : AddCalls[i].err = "")
        /\ (ret # Nil) => (ret.kind = "join" /\ ret.errs = errs)

\* the only matched account's registration failed and syncUser returned an
\* error
C12_Witness ==
    /\ LoopDone
    /\ Len(gus) = 1 /\ gus[1].AccountID > 0
    /\ Len(AddCalls) = 1 /\ AddCalls[1].err = "EOF"
    /\ ret # Nil

----------------------------------------------------------------------------
(* Properties of the syncUser with the filters and the existing-key check *)

\* the error entries recorded so far for the account id
RecordedFor(id) == {k \in 1..Len(errs) : errs[k].id = id}

FailedListings(id) ==
    {j \in CallsOf("ListSSHKeys") : calls[j].arg = Itoa(id) /\ calls[j].err # ""}

----------------------------------------------------------------------------
(* gerritclient.AddSSHKey, called with every public key string up to         *)
(* MaxKeyLen characters                                                       *)

\* the characters of the public keys: a letter, a space and a tab
KeyChars == {"r", SP, "\t"}

PublicKeys == UNION {[1..n -> KeyChars] : n \in 0..MaxKeyLen}

\* the path parameter: empty for the default, or the path a caller supplies
Paths == {<<>>, <<"/custom">>}

\* if path == "" { path = fmt.Sprintf("/accounts/%d/sshkeys", account.AccountID) }
RequestPath(path, account) ==
    IF path = <<>> THEN <<"/accounts/">> \o Itoa(account.AccountID) \o <<"/sshkeys">>
    ELSE path

InitAdd ==
    /\ pc = "AddSSHKey"
    /\ cus = <<>>
    /\ ui = 0
    /\ filterOnly = ""
    /\ synced = <<>>
    /\ spc = "request"
    /\ user = U1
    /\ gus \in {<<Account(7, FALSE)>>, <<Account(12, FALSE)>>}
    /\ key \in PublicKeys
    /\ ai = 1
    /\ errs = <<>>
    /\ ret = Nil
    /\ calls = <<>>
    /\ store = [id \in AccountIDs |-> {}]
    /\ run = 0
    /\ dir = [e \in Emails |-> <<>>]
    /\ coderKey = [u \in UserIDs |-> <<>>]
    /\ coderUsers = <<>>
    /\ boot = <<>>
    /\ http = NoExchange

\* an AddSSHKey that logs the error of a step and returns nil
PropagatedNil(err) == Nil

\* if err != nil { return err }: the error of the step is the result
Propagated(err) == Err("call", err, <<>>)

\* keyStr is built and the request is created; a creation error is returned
NewRawPutRequest ==
    /\ pc = "AddSSHKey" /\ spc = "request"
    /\ \E path \in Paths, err \in GerritErrs \cup {""} :
          /\ calls' = Append(calls,
                Call("NewRawPutRequest", RequestPath(path, gus[ai]), KeyStr(key), err))
          /\ IF err # "" THEN Return(Propagated(err)) ELSE spc' = "do" /\ UNCHANGED ret
    /\ UNCHANGED <<pc, cus, ui, filterOnly, synced, user, gus, key, ai, errs, store,
                   run, worldVars, boot, http>>

\* the request is executed; an execution error is returned
Do ==
    /\ pc = "AddSSHKey" /\ spc = "do"
    /\ LET req == calls[Len(calls)]
       IN  \E err \in GerritErrs \cup {""} :
              /\ calls' = Append(calls, Call("Do", req.arg, req.key, err))
              /\ IF err # ""
                 THEN Return(Propagated(err)) /\ UNCHANGED store
                 ELSE /\ Return(Nil)
                      /\ store' = Registered(store, Itoa(gus[ai].AccountID), req.key)
    /\ UNCHANGED <<pc, cus, ui, filterOnly, synced, user, gus, key, ai, errs, run,
                   worldVars, boot, http>>

NextAdd == NewRawPutRequest \/ Do

SpecAdd == InitAdd /\ [][NextAdd]_vars

----------------------------------------------------------------------------
(* Properties of the key string AddSSHKey sends *)

\* AddSSHKey has built its key string and asked for the request
Requested == calls # <<>> /\ calls[1].op = "NewRawPutRequest"

\* the key string handed to NewRawPutRequest
Body == calls[1].key

\* the position of the first whitespace character of s; 0 when there is none
IndexWS(s) ==
    IF \E i \in 1..Len(s) : IsSpace(s[i])
    THEN CHOOSE i \in 1..Len(s) : IsSpace(s[i]) /\ \A j \in 1..(i - 1) : ~IsSpace(s[j])
    ELSE 0

\* the tokens of s, split on runs of whitespace into at most n tokens, the last
\* one being the rest of the string
RECURSIVE Tokens(_, _)
Tokens(s, n) ==
    LET t == TrimSpace(s)
    IN  IF t = <<>> THEN <<>>
        ELSE IF n <= 1 \/ IndexWS(t) = 0 THEN <<t>>
        ELSE <<SubSeq(t, 1, IndexWS(t) - 1)>>
             \o Tokens(SubSeq(t, IndexWS(t) + 1, Len(t)), n - 1)

\* b is an algorithm, a key material and a comment, none of them empty, joined
\* by single spaces
ThreeFields(b) ==
    \E i, j \in 1..Len(b) :
        /\ 1 < i /\ i + 1 < j /\ j < Len(b)
        /\ b[i] = SP /\ b[j] = SP
        /\ \A n \in (1..(i - 1)) \cup ((i + 1)..(j - 1)) : ~IsSpace(b[n])
        /\ ~IsSpace(b[j + 1]) /\ ~IsSpace(b[Len(b)])

\* how many space characters s holds
Spaces(s) == Cardinality({i \in 1..Len(s) : s[i] = SP})

----------------------------------------------------------------------------
(* Properties of syncUser and main, continued *)

\* how many calls of the kind op the current syncUser call has made on the
\* account id
CountOn(op, id) == Cardinality({j \in CallsOf(op) : calls[j].arg = Itoa(id)})

\* C17: one syncUser call has bounded side effects: when it returns it has
\* issued exactly one account query, and has fetched the user's key not at all
\* when the query returned no account and exactly once otherwise, however many
\* accounts matched; and at no point has a matched account received more than
\* one key-list call or more than one registration call.
C17_BoundedSideEffects ==
    /\ pc = "range" =>
          /\ Cardinality(CallsOf("QueryAccounts")) <= 1
          /\ Cardinality(CallsOf("Get")) <= 1
          /\ \A id \in AccountIDs :
                CountOn("AddSSHKey", id) <= 1 /\ CountOn("ListSSHKeys", id) <= 1
    /\ (pc = "range" /\ spc = "returned") =>
          /\ Cardinality(CallsOf("QueryAccounts")) = 1
          /\ Cardinality(CallsOf("Get")) = IF gus = <<>> THEN 0 ELSE 1
          /\ Cardinality(CallsOf("AddSSHKey")) <= Len(gus)

\* two accounts matched: one query, one key fetch, one registration call each
C17_Witness ==
    /\ pc = "range" /\ LoopDone
    /\ Len(gus) = 2
    /\ Cardinality(CallsOf("QueryAccounts")) = 1
    /\ Cardinality(CallsOf("Get")) = 1
    /\ \A i \in 1..2 : CountOn("AddSSHKey", gus[i].AccountID) = 1
    /\ \E j \in CallsOf("AddSSHKey") : calls[j].err # ""

\* the users of list that pass the --only filter, in the order of the list
Filtered(list) ==
    SelectSeq(list, LAMBDA u : filterOnly = "" \/ u.Email = filterOnly)

\* the users for whom syncUser has been called and has returned, in order
SyncedUsers == [i \in 1..Len(synced) |-> synced[i].user]

\* C18: no user's failure halts the batch: when main ends, syncUser has been
\* called exactly once for every listed user that passes the filter, in the
\* order of the list, whatever errors the earlier calls returned; while the
\* loop runs the calls made are those for the filtered users before the
\* current position; and once a syncUser call has been made the process never
\* ends in log.Fatalf.
C18_FailureDoesNotHaltBatch ==
    /\ pc = "exit" =>
          SyncedUsers = Filtered(cus) /\ run = Len(Filtered(cus))
    /\ (pc = "range" /\ ui <= Len(cus) + 1) =>
          SyncedUsers = Filtered(SubSeq(cus, 1, ui - 1))
    /\ run > 0 => pc \in {"range", "exit"}

\* both listed users were synced although the sync of the first one failed
C18_Witness ==
    /\ pc = "exit"
    /\ Len(cus) = 2 /\ Len(synced) = 2
    /\ synced[1].ret # Nil
    /\ synced[1].user = cus[1] /\ synced[2].user = cus[2]

\* a start-up step has failed
BootFailed == \E i \in 1..Len(boot) : ~boot[i].ok

\* C19: a start-up failure is fatal before any sync: the steps are taken in the
\* order client creation, Gerrit version, Coder build info, user listing; no
\* step is taken after one that failed; once a step has failed the process has
\* stopped and syncUser has been called for no user; and syncUser is called
\* only after all four steps succeeded.
C19_BootstrapFailureIsFatal ==
    /\ Len(boot) <= Len(BootOrder)
    /\ \A i \in 1..Len(boot) :
          boot[i].step = BootOrder[i] /\ (i < Len(boot) => boot[i].ok)
    /\ BootFailed =>
          pc = "fatal" /\ run = 0 /\ synced = <<>> /\ calls = <<>> /\ spc = "idle"
    /\ (pc = "fatal") => BootFailed
    /\ run > 0 => (Len(boot) = Len(BootOrder) /\ ~BootFailed)

\* the Coder build info could not be read after the Gerrit client was created
\* and the Gerrit version was read: the process stopped before listing users
C19_Witness ==
    /\ pc = "fatal"
    /\ Len(boot) = 3 /\ boot[1].ok /\ boot[2].ok /\ ~boot[3].ok
    /\ boot[3].step = "buildinfo"
    /\ http.made /\ http.err # ""
    /\ run = 0

\* the status codes the error err names
StatusNamedIn(err) == {code \in {200, 201, 404} : err = StatusError(code)}

----------------------------------------------------------------------------
(* Properties of gerritclient.AddSSHKey *)

\* C21: AddSSHKey propagates both failure points: when creating the request
\* fails it returns that error and executes no request; when executing the
\* request fails it returns that error; it returns nil only when both steps
\* succeeded; and it executes at most one request per call, always after the
\* request was created.
C21_AddSSHKeyPropagatesFailures ==
    pc = "AddSSHKey" =>
        /\ Cardinality(CallsOf("Do")) <= 1
        /\ Cardinality(CallsOf("NewRawPutRequest")) <= 1
        /\ \A j \in CallsOf("Do") :
              j = 2 /\ calls[1].op = "NewRawPutRequest" /\ calls[1].err = ""
        /\ spc = "returned" =>
              /\ Requested
              /\ calls[1].err # "" =>
                    /\ ret # Nil /\ ret.cause = calls[1].err
                    /\ CallsOf("Do") = {}
              /\ (calls[1].err = "") =>
                    /\ Len(calls) = 2 /\ calls[2].op = "Do"
                    /\ calls[2].err # "" => (ret # Nil /\ ret.cause = calls[2].err)
              /\ (ret = Nil) <=> (\A j \in 1..Len(calls) : calls[j].err = "")
              /\ (ret = Nil) => Len(calls) = 2

\* creating the request failed: AddSSHKey returned the error without executing
\* anything
C21_Witness ==
    /\ pc = "AddSSHKey" /\ spc = "returned"
    /\ Len(calls) = 1 /\ calls[1].op = "NewRawPutRequest" /\ calls[1].err = "EOF"
    /\ ret # Nil /\ ret.cause = "EOF"

----------------------------------------------------------------------------
(* Order of the calls of syncUser *)

\* the list and registration calls of the current syncUser call, in the order
\* made
AccountCalls == SelectSeq(calls, LAMBDA c : c.op \in {"AddSSHKey", "ListSSHKeys"})

\* the positions in the query's answer of the account a call names
PositionsOf(arg) == {i \in 1..Len(gus) : Itoa(gus[i].AccountID) = arg}

\* C22: within one syncUser call the matched accounts are processed one at a
\* time in the order the query returned them: every list or registration call
\* names exactly one account of the answer, at a position the loop has reached,
\* and a call for the account at a later position is never followed by a call
\* for an account at an earlier position.
C22_AccountsInQueryOrder ==
    pc = "range" =>
        \A j \in 1..Len(AccountCalls) :
            /\ Cardinality(PositionsOf(AccountCalls[j].arg)) = 1
            /\ \A p \in PositionsOf(AccountCalls[j].arg) :
                  /\ p <= ai
                  /\ spc = "range" => p < ai
                  /\ \A k \in (j + 1)..Len(AccountCalls) :
                        \A q \in PositionsOf(AccountCalls[k].arg) : p < q

\* two accounts matched, 12 before 7: the call for 12 was made first, then the
\* call for 7
C22_Witness ==
    /\ pc = "range" /\ LoopDone
    /\ Len(gus) = 2 /\ gus[1].AccountID = 12 /\ gus[2].AccountID = 7
    /\ Len(AccountCalls) = 2
    /\ AccountCalls[1].arg = Itoa(12) /\ AccountCalls[2].arg = Itoa(7)

\* the account query is the first call, the key fetch the second, and every
\* list or registration call comes after a successful query and a successful
\* fetch
QueryThenFetchThenAccounts ==
    /\ \A j \in CallsOf("QueryAccounts") : j = 1
    /\ \A j \in CallsOf("Get") :
          j = 2 /\ calls[1].op = "QueryAccounts" /\ calls[1].err = ""
    /\ \A j \in CallsOf("AddSSHKey") \cup CallsOf("ListSSHKeys") :
          /\ j > 2
          /\ calls[1].op = "QueryAccounts" /\ calls[1].err = ""
          /\ calls[2].op = "Get" /\ calls[2].err = ""

Malformed(k) == Len(Tokens(k, 3)) <= 1

\* C24: a fetched key that is malformed (zero or one token after trimming) is
\* never sent in a registration call, and the syncUser call that fetched it
\* returns an error.
C24_MalformedKeyNeverSent ==
    /\ \A j \in CallsOf("AddSSHKey") : ~Malformed(calls[j].key)
    /\ (spc = "returned" /\ KeyFetched /\ Malformed(coderKey[user.ID])) => ret # Nil

----------------------------------------------------------------------------
(* Repeated passes: the process is started again after it has ended, over    *)
(* the same users, keys and accounts; Gerrit keeps the keys it stored         *)

\* the passes run over two listed users: the first has the accounts, all of
\* them active, the second has none
InitPasses ==
    /\ Init
    /\ coderUsers = <<U1, U2>>
    /\ dir["b@x"] = <<>>
    /\ \A i \in 1..Len(dir["a@x"]) :
          dir["a@x"][i].AccountID >= 0 /\ ~dir["a@x"][i].Inactive
    /\ coderKey["u2"] = <<"r", " ", "n">>

\* the process is started again: nothing of the ended pass is kept
Rerun ==
    /\ pc \in {"exit", "fatal"}
    /\ pc' = "newGerritClient"
    /\ cus' = <<>> /\ ui' = 0 /\ synced' = <<>>
    /\ spc' = "idle" /\ user' = U1
    /\ gus' = <<>> /\ key' = <<>> /\ ai' = 0 /\ errs' = <<>> /\ ret' = Nil
    /\ calls' = <<>>
    /\ run' = 0
    /\ boot' = <<>>
    /\ http' = NoExchange
    /\ UNCHANGED <<filterOnly, store, worldVars>>

NextPasses == Next \/ Rerun

\* the last call logged by the step succeeded
CallSucceeded == Len(calls') = Len(calls) + 1 /\ calls'[Len(calls')].err = ""

\* every step is eventually taken, and every external call that is made again
\* and again eventually succeeds: each start-up step, the account query and
\* the key fetch of the user that has accounts, and the registration on each
\* account
FairPasses ==
    /\ WF_vars(NextPasses)
    /\ SF_vars(NewGerritClient /\ pc' # "fatal")
    /\ SF_vars(GetVersion /\ pc' # "fatal")
    /\ SF_vars(GetBuildInfo /\ pc' # "fatal")
    /\ SF_vars(GetUsers /\ pc' # "fatal")
    /\ SF_vars(QueryAccounts /\ user = U1 /\ CallSucceeded)
    /\ SF_vars(GetGitSSHKey /\ user = U1 /\ CallSucceeded)
    /\ \A id \in {n \in AccountIDs : n > 0} :
          SF_vars(AddSSHKey /\ Ranged(gus, ai).AccountID = id /\ CallSucceeded)

SpecPasses == InitPasses /\ [][NextPasses]_vars /\ FairPasses

----------------------------------------------------------------------------
(* Properties of repeated passes *)

\* the users a pass syncs: the listed users that pass the filter
SyncedByPass == {u \in AllUsers :
                    /\ \E i \in 1..Len(coderUsers) : coderUsers[i] = u
                    /\ (filterOnly = "" \/ u.Email = filterOnly)}

\* the identifiers > 0 of the accounts that match the user's email
ValidAccountsOf(u) ==
    {dir[u.Email][i].AccountID : i \in {n \in 1..Len(dir[u.Email]) :
                                           dir[u.Email][n].AccountID > 0}}

\* the account id carries a key with the first two fields of the key k
Carries(id, k) == \E l \in store[id] : KeyFields(l) = KeyFields(k)

----------------------------------------------------------------------------
(* One pass in which every step that can be taken is eventually taken: every  *)
(* external call returns, with a result or with an error                      *)

SpecFair == InitPasses /\ [][Next]_vars /\ WF_vars(Next)

\* syncUser has been called and has not returned
InSyncUser == spc \in {"query", "key", "range"}

\* C26: the pass terminates: with every external call returning, every
\* syncUser call returns and main, once in its loop, reaches the end of the
\* user list, whatever the calls of the pass answered.
C26_PassTerminates ==
    /\ InSyncUser ~> (spc = "returned")
    /\ (pc = "range") ~> (pc = "exit")

\* main has reached the end of a list of two users after the sync of both of
\* them failed, the first one on its accounts, the second one on its query
C26_Witness ==
    /\ pc = "exit" /\ Len(cus) = 2 /\ Len(synced) = 2
    /\ synced[1].ret.kind = "join" /\ Len(synced[1].ret.errs) = 2
    /\ synced[2].ret # Nil

----------------------------------------------------------------------------
(* Properties of a pass, continued *)

\* the identifiers of the accounts that match the email
AccountsOf(email) == {dir[email][i].AccountID : i \in 1..Len(dir[email])}

\* the call was made for the user u: the query names u's email, the fetch u's
\* identifier, the registration an account that matches u's email
CallFor(c, u) ==
    CASE c.op = "QueryAccounts" -> c.arg = <<u.Email>>
      [] c.op = "Get" -> c.arg = <<"/api/v2/users/", u.ID, "/gitsshkey">>
      [] OTHER -> \E id \in AccountsOf(u.Email) : c.arg = Itoa(id)

\* C27: with a filter that is not empty, syncUser is invoked only for listed
\* users whose email equals the filter, every account query, key fetch and
\* registration is made for such a user, and the accounts of every other
\* email receive nothing; with an empty filter every listed user is synced.
C27_OnlyFilteredUserSynced ==
    /\ filterOnly # "" =>
          /\ \A i \in 1..Len(synced) : synced[i].user.Email = filterOnly
          /\ spc # "idle" => user.Email = filterOnly
          /\ \A j \in 1..Len(calls) :
                \E u \in AllUsers : u.Email = filterOnly /\ CallFor(calls[j], u)
          /\ \A e \in Emails \ {filterOnly} : \A id \in AccountsOf(e) : store[id] = {}
    /\ (filterOnly = "" /\ pc = "exit") => SyncedUsers = cus

\* the filter names the first of two listed users: the pass has ended, that
\* user's account carries the key and the other user, who has a key and a
\* valid account, was not synced
C27_Witness ==
    /\ pc = "exit" /\ filterOnly = "a@x"
    /\ cus = <<U1, U2>>
    /\ Len(synced) = 1 /\ synced[1].user = U1 /\ synced[1].added # {}
    /\ coderKey["u2"] # <<>>
    /\ \E id \in AccountsOf("b@x") : id > 0 /\ store[id] = {}

KeysOfEmail(email) == {coderKey[u.ID] : u \in {v \in AllUsers : v.Email = email}}

\* C29: no key crosses from one user to another: every registration call of a
\* syncUser call names an account that the query returned for the email of the
\* call's user and carries the key fetched for that user, so all registrations
\* of the call carry one key; and across the pass an account holds only keys
\* of the users whose email it matches.
C29_NoCrossUserKey ==
    /\ \A j \in CallsOf("AddSSHKey") :
          /\ \E id \in AccountsOf(user.Email) : calls[j].arg = Itoa(id)
          /\ \E i \in 1..Len(gus) : calls[j].arg = Itoa(gus[i].AccountID)
          /\ calls[j].key = coderKey[user.ID]
          /\ \A k \in CallsOf("AddSSHKey") : calls[k].key = calls[j].key
    /\ \A e \in Emails : \A id \in AccountsOf(e) : store[id] \subseteq KeysOfEmail(e)
    /\ \A id \in AccountIDs :
          store[id] # {} => \E e \in Emails : id \in AccountsOf(e)

\* both users were synced in one pass: the account of each carries the key of
\* its own user and nothing else, and the two keys differ
C29_Witness ==
    /\ pc = "exit" /\ Len(synced) = 2
    /\ coderKey["u1"] # coderKey["u2"]
    /\ \E id \in AccountsOf("a@x") : store[id] = {coderKey["u1"]}
    /\ \E id \in AccountsOf("b@x") : store[id] = {coderKey["u2"]}

\* C30: key normalization is idempotent: for every raw key, the key string
\* AddSSHKey sends is the normalization of the raw key, and normalizing that
\* string again returns it unchanged.
C30_NormalizationIdempotent ==
    Requested =>
        /\ Body = KeyStr(key)
        /\ KeyStr(Body) = Body
        /\ TrimSpace(Body) = Body

\* a key without comment was sent with the comment added, and the string sent
\* is its own normalization
C30_Witness ==
    /\ Requested
    /\ key = <<"r", SP, "r">>
    /\ Body = <<"r", SP, "r", SP, "coder-sync">>
    /\ KeyStr(Body) = Body

====
